---- MODULE Spec2Model ----
(***************************************************************************)
(* Model of backend/src/services/config.rs (ConfigService) as a state      *)
(* machine.  The service object holds a database handle and the            *)
(* application configuration; none of its methods writes to either, so     *)
(* the persisted history is the only durable state, and the rest of the    *)
(* state is the environment the methods read (wall clock, the supply of    *)
(* random uuids) and the request/response of the last call.                *)
(*                                                                         *)
(* Beside it: the HTTP worker threads that call the service (main.rs),     *)
(* websocket_handler with its ConnectionManager (websocket/mod.rs) and     *)
(* NodeService::test_connection (services/node_service.rs), each with a    *)
(* specification of its own; and calculate_diff and search_in_tree         *)
(* applied to trees the service itself never builds.                       *)
(***************************************************************************)
EXTENDS Integers, Sequences, FiniteSets, TLC

\* ---------------------------------------------------------------- bounds
MaxClock == 2          \* last clock instant explored
TicksPerSecond == 2    \* clock instants per wall-clock second
MaxUuid == 7           \* uuids drawn before the model stops drawing more
MaxChanges == 2        \* longest bulk request explored
MaxWorkers == 2        \* HTTP worker threads
MaxHandlers == 2       \* websocket_handler calls
MaxCallers == 2        \* NodeService::test_connection calls

\* ---------------------------------------------------------------- inputs
NoneValue == "None"
Paths == {"/a", "/b"}
\* "1" satisfies the validation rule of the addressed node, "x" violates it
\* (the request carries no schema; the rule lives in ConfigMetadata).
Values == {"1", "x"}
Comments == {"c"}
HistoryIds == {"h1", "h2"}
SnapshotIds == {"s1", "s2"}
\* Option<usize>: <<>> is None, <<n>> is Some(n)
Limits == {<<>>, <<1>>}
\* paths asked of get_config_value: the paths that are set and deleted, and
\* one below "/a"
ValuePaths == Paths \cup {"/a/c"}

\* Environment fact about a requested value: does it meet the validation
\* constraints of the node at path?  The service is expected to check this
\* in validate_config_path; nothing in the service computes it.
MeetsConstraints(path, value) == value # "x"

ConfigSetRequest == [path : Paths, value : Values, validate : BOOLEAN]

\* The entries of a bulk request are ConfigSetRequests whose own validate
\* field bulk_config_change never reads; the explored requests leave it off.
BulkChanges == [path : Paths, value : Values, validate : {FALSE}]

RECURSIVE SeqsUpTo(_, _)
SeqsUpTo(S, n) ==
    IF n = 0 THEN {<<>>}
    ELSE LET shorter == SeqsUpTo(S, n - 1)
         IN  shorter \cup {Append(s, x) : s \in {t \in shorter : Len(t) = n - 1}, x \in S}

BulkChangeLists == SeqsUpTo(BulkChanges, MaxChanges)

\* ---------------------------------------------------------------- results
Ok(v) == [ok |-> TRUE, val |-> v]
Err(e) == [ok |-> FALSE, err |-> e]

VARIABLES
    clock,      \* chrono::Utc::now(), in clock instants
    nextUuid,   \* number of uuids handed out so far by Uuid::new_v4()
    history,    \* the persisted configuration history (config_history)
    last,       \* the last call: operation, request, result
    workers,    \* what each HTTP worker thread is executing
    connections,\* ConnectionManager.connections: the registered connection ids
    handlers,   \* the websocket_handler calls: position, connection id
    status,     \* nodes.status of every row of the nodes table
    calls       \* the NodeService::test_connection calls: position, node

vars == <<clock, nextUuid, history, last, workers, connections, handlers, status, calls>>

\* the state outside ConfigService
elsewhere == <<workers, connections, handlers, status, calls>>

\* chrono::Utc::now().timestamp(): whole seconds
timestamp(t) == t \div TicksPerSecond

\* ------------------------------------------------------- private helpers
build_mock_config_tree(path_filter, id, now) ==
    Ok([id |-> id, path |-> "/", name |-> "root", value |-> NoneValue,
        node_type |-> "Container", children |-> <<>>,
        created_at |-> now, updated_at |-> now])

RECURSIVE count_nodes_seq(_, _)
count_nodes(node) == 1 + count_nodes_seq(node.children, 1)
count_nodes_seq(children, i) ==
    IF i > Len(children) THEN 0
    ELSE count_nodes(children[i]) + count_nodes_seq(children, i + 1)

retrieve_config(request, id, now) ==
    LET root == build_mock_config_tree(request.path, id, now)
    IN  IF ~root.ok THEN root
        ELSE Ok([config_tree |-> root.val, retrieved_at |-> now,
                 node_count |-> count_nodes(root.val)])

validate_config_path(path, value) == Ok("unit")

validate_config_deletion(path) == Ok("unit")

calculate_config_hash(node, now) == <<"hash_", timestamp(now)>>

\* draws two uuids: id for the root node, id + 1 for the snapshot
create_config_snapshot(id, now) ==
    LET config_response ==
            retrieve_config([path |-> NoneValue, include_defaults |-> TRUE,
                             include_readonly |-> TRUE], id, now)
    IN  IF ~config_response.ok THEN config_response
        ELSE Ok([id |-> id + 1,
                 config_tree |-> config_response.val.config_tree,
                 hash |-> calculate_config_hash(config_response.val.config_tree, now),
                 created_at |-> now])

\* the body only logs; the history it is handed comes back unchanged
store_config_history(h, config_snapshot, change_type, changed_by, description, is_rollback_point, commit_status) ==
    [result |-> Ok("unit"), history |-> h]

get_history_entry(history_id, id, now) ==
    LET snapshot == create_config_snapshot(id, now)
    IN  IF ~snapshot.ok THEN snapshot
        ELSE Ok([id |-> history_id, config_snapshot |-> snapshot.val,
                 change_type |-> "Generate", changed_by |-> "system",
                 changed_at |-> now, description |-> "Mock history entry",
                 is_rollback_point |-> FALSE, commit_status |-> "Success"])

validate_configuration == Ok(<<"Validation completed successfully">>)

\* -------------------------------------------------------- public methods
set_config(request) ==
    LET checked == IF request.validate
                   THEN validate_config_path(request.path, request.value)
                   ELSE Ok("unit")
    IN  IF ~checked.ok THEN checked
        ELSE Ok([success |-> TRUE,
                 message |-> <<"Configuration set at path: ", request.path>>,
                 changes_made |-> << <<"Set ", request.path, request.value>> >>])

delete_config(request) ==
    LET checked == IF request.validate
                   THEN validate_config_deletion(request.path)
                   ELSE Ok("unit")
    IN  IF ~checked.ok THEN checked
        ELSE Ok([success |-> TRUE,
                 message |-> <<"Configuration deleted at path: ", request.path>>,
                 changes_made |-> << <<"Deleted ", request.path>> >>])

get_history(limit) ==
    Ok([history |-> <<>>, total_count |-> 0])

get_config_snapshot(snapshot_id, id, now) == create_config_snapshot(id, now)

\* a diff that lists every node of tree2 as added, whatever tree1 holds
calculate_diff_all_added(tree1, tree2) ==
    Ok([additions |-> <<[path |-> tree2.path, old_value |-> NoneValue,
                         new_value |-> tree2.value, change_type |-> "Added"]>>
                      \o [k \in 1..Len(tree2.children) |->
                            [path |-> tree2.children[k].path, old_value |-> NoneValue,
                             new_value |-> tree2.children[k].value,
                             change_type |-> "Added"]],
        deletions |-> <<>>,
        modifications |-> <<>>])

\* a diff that finds the children only tree2 has and never looks for the
\* children only tree1 has
calculate_diff_one_sided(tree1, tree2) ==
    Ok([additions |-> SelectSeq([k \in 1..Len(tree2.children) |->
                                   [path |-> tree2.children[k].path,
                                    old_value |-> NoneValue,
                                    new_value |-> tree2.children[k].value,
                                    change_type |-> "Added"]],
                                LAMBDA c : \A j \in 1..Len(tree1.children) :
                                               tree1.children[j].path # c.path),
        deletions |-> <<>>,
        modifications |-> <<>>])

calculate_diff(tree1, tree2) ==
    Ok([additions |-> <<>>, deletions |-> <<>>, modifications |-> <<>>])

\* draws five uuids: two per snapshot, then the id of the result; now1 and
\* now2 >= now1 are the instants the two snapshots are fetched
diff_configs(snapshot_id1, snapshot_id2, id, now1, now2) ==
    LET snapshot1 == get_config_snapshot(snapshot_id1, id, now1)
    IN  IF ~snapshot1.ok THEN snapshot1
        ELSE
        LET snapshot2 == get_config_snapshot(snapshot_id2, id + 2, now2)
        IN  IF ~snapshot2.ok THEN snapshot2
            ELSE
            LET diff == calculate_diff(snapshot1.val.config_tree, snapshot2.val.config_tree)
            IN  IF ~diff.ok THEN diff
                ELSE Ok([id |-> id + 4,
                         snapshot1 |-> snapshot1.val,
                         snapshot2 |-> snapshot2.val,
                         additions |-> diff.val.additions,
                         deletions |-> diff.val.deletions,
                         modifications |-> diff.val.modifications,
                         generated_at |-> now2])

\* a lookup that answers with the name of the node it stopped at when the
\* path is not in the tree
find_node_value_fallback(node, path) == node.name

\* Option<String>: the value, or NoneValue
RECURSIVE find_node_value(_, _)
RECURSIVE find_in_children(_, _, _)
find_node_value(node, path) ==
    IF node.path = path THEN node.value
    ELSE find_in_children(node.children, path, 1)
find_in_children(children, path, k) ==
    IF k > Len(children) THEN NoneValue
    ELSE LET value == find_node_value(children[k], path)
         IN  IF value # NoneValue THEN value
             ELSE find_in_children(children, path, k + 1)

\* handlers::config::get_config_value; draws one uuid (the root node's)
get_config_value(req, id, now) ==
    LET result == retrieve_config([path |-> req.path, include_defaults |-> TRUE,
                                   include_readonly |-> FALSE], id, now)
    IN  IF ~result.ok THEN result
        ELSE LET value == find_node_value(result.val.config_tree, req.path)
             IN  Ok([path |-> req.path, value |-> value,
                     found |-> value # NoneValue])

\* What a call hands back to the action that made it: the Result the caller
\* sees, the history after the call, the uuids drawn, and the snapshot the
\* call built (NoneValue when it built none).
Outcome(result, h, uuids, snapshot) ==
    [result |-> result, history |-> h, uuids |-> uuids, snapshot |-> snapshot]

generate_config(request, changed_by, h, id, now) ==
    LET warnings == IF request.validate THEN validate_configuration ELSE Ok(<<>>)
    IN  IF ~warnings.ok THEN Outcome(warnings, h, 0, NoneValue)
        ELSE
        LET config_snapshot == create_config_snapshot(id, now)
        IN  IF ~config_snapshot.ok THEN Outcome(config_snapshot, h, 1, NoneValue)
            ELSE
            LET stored == store_config_history(h, config_snapshot.val, "Generate", changed_by, request.comment, FALSE, "Success")
            IN  IF ~stored.result.ok
                THEN Outcome(stored.result, stored.history, 2, config_snapshot.val)
                ELSE Outcome(Ok([success |-> TRUE,
                                 message |-> "Configuration committed successfully",
                                 config_snapshot_id |-> config_snapshot.val.id,
                                 warnings |-> warnings.val]),
                             stored.history, 2, config_snapshot.val)

\* now1 is the instant get_history_entry runs, now2 >= now1 the instant the
\* second snapshot is built
rollback_config(request, changed_by, h, id, now1, now2) ==
    LET history_entry == get_history_entry(request.history_id, id, now1)
    IN  IF ~history_entry.ok THEN Outcome(history_entry, h, 1, NoneValue)
        ELSE
        LET new_snapshot == create_config_snapshot(id + 2, now2)
            new_history_id == id + 4
        IN  IF ~new_snapshot.ok THEN Outcome(new_snapshot, h, 3, NoneValue)
            ELSE
            LET stored == store_config_history(h, new_snapshot.val, "Rollback", changed_by, request.comment, FALSE, "Success")
            IN  IF ~stored.result.ok
                THEN Outcome(stored.result, stored.history, 5, new_snapshot.val)
                ELSE Outcome(Ok([success |-> TRUE,
                                 message |-> <<"Rolled back to configuration from ",
                                               history_entry.val.changed_at>>,
                                 rolled_back_to |-> history_entry.val.config_snapshot,
                                 new_history_id |-> new_history_id]),
                             stored.history, 5, new_snapshot.val)

\* e.to_string() of an AppError [kind, msg]: the variant's #[error] text
\* followed by the message
to_string(e) ==
    CASE e.kind = "Validation" -> <<"Validation error: ", e.msg>>
      [] e.kind = "NotFound" -> <<"Not found: ", e.msg>>
      [] OTHER -> <<"Internal error: ", e.msg>>

\* The for loop of bulk_config_change from change i on.  outcomes records,
\* for each change the loop reached, its index and whether its set_config
\* returned Ok.
RECURSIVE bulk_loop_prepend(_, _, _, _, _)
bulk_loop_prepend(request, i, applied, failed, outcomes) ==
    IF i > Len(request.changes)
    THEN [applied |-> applied, failed |-> failed, outcomes |-> outcomes]
    ELSE
    LET change == request.changes[i]
        result == set_config([path |-> change.path, value |-> change.value,
                              validate |-> request.validate])
    IN  IF result.ok
        THEN bulk_loop_prepend(request, i + 1, <<change.path>> \o applied, failed,
                               Append(outcomes, [i |-> i, ok |-> TRUE]))
        ELSE
        LET failed2 == Append(failed, [path |-> change.path,
                                       error |-> to_string(result.err)])
        IN  IF request.stop_on_error
            THEN [applied |-> applied, failed |-> failed2,
                  outcomes |-> Append(outcomes, [i |-> i, ok |-> FALSE])]
            ELSE bulk_loop_prepend(request, i + 1, applied, failed2,
                                   Append(outcomes, [i |-> i, ok |-> FALSE]))

RECURSIVE bulk_loop(_, _, _, _, _)
bulk_loop(request, i, applied, failed, outcomes) ==
    IF i > Len(request.changes)
    THEN [applied |-> applied, failed |-> failed, outcomes |-> outcomes]
    ELSE
    LET change == request.changes[i]
        result == set_config([path |-> change.path, value |-> change.value,
                              validate |-> request.validate])
    IN  IF result.ok
        THEN bulk_loop(request, i + 1, Append(applied, change.path), failed,
                       Append(outcomes, [i |-> i, ok |-> TRUE]))
        ELSE
        LET failed2 == Append(failed, [path |-> change.path,
                                       error |-> to_string(result.err)])
        IN  IF request.stop_on_error
            THEN [applied |-> applied, failed |-> failed2,
                  outcomes |-> Append(outcomes, [i |-> i, ok |-> FALSE])]
            ELSE bulk_loop(request, i + 1, applied, failed2,
                           Append(outcomes, [i |-> i, ok |-> FALSE]))

\* the response built after the loop
BulkResponse(done, success) ==
    [success |-> success,
     message |-> IF success THEN <<"All changes applied successfully">>
                 ELSE <<"Applied ", Len(done.applied), " changes, ",
                        Len(done.failed), " failed">>,
     applied |-> done.applied,
     failed |-> done.failed]

\* success computed from the wrong list
bulk_config_change_applied_empty(request, changed_by) ==
    LET done == bulk_loop(request, 1, <<>>, <<>>, <<>>)
    IN  Ok(BulkResponse(done, done.applied = <<>>))

\* the whole request rejected up front when one of its values is invalid
bulk_config_change_rejects(request, changed_by) ==
    IF /\ request.validate
       /\ \E i \in 1..Len(request.changes) :
            ~MeetsConstraints(request.changes[i].path, request.changes[i].value)
    THEN Err([kind |-> "Validation", msg |-> "invalid value"])
    ELSE LET done == bulk_loop(request, 1, <<>>, <<>>, <<>>)
         IN  Ok(BulkResponse(done, done.failed = <<>>))

bulk_config_change(request, changed_by) ==
    LET done == bulk_loop(request, 1, <<>>, <<>>, <<>>)
        success == done.failed = <<>>
    IN  Ok(BulkResponse(done, success))

\* ------------------------------------------- the rest of the application
\* HttpServer::new(..) is given no worker count: it starts one worker thread
\* per core, each with its own clone of every service
WorkerIds == 1..MaxWorkers
HandlerIds == 1..MaxHandlers
CallerIds == 1..MaxCallers

\* ids asked of NodeService; the nodes table has a row for the first two
NodeIds == {"n1", "n2", "n3"}
NodeRows == {"n1", "n2"}

\* no worker has accepted a request
WorkersInit == workers = [w \in WorkerIds |-> [op |-> "idle", left |-> 0]]

\* ConnectionManager::new(), and no websocket_handler call made yet; a
\* handler's id is <<>> until it has drawn one, then <<id>>
WsInit ==
    /\ connections = {}
    /\ handlers = [h \in HandlerIds |->
                     [pc |-> "none", id |-> <<>>, user_id |-> NoneValue,
                      channels |-> <<>>, response |-> NoneValue]]

\* create_node stores every row with status offline; a call's result is <<>>
\* until it has returned, then <<result>>
NodesInit ==
    /\ status = [n \in NodeRows |-> "offline"]
    /\ calls = [c \in CallerIds |->
                  [pc |-> "none", node_id |-> NoneValue, before |-> NoneValue,
                   success |-> FALSE, result |-> <<>>]]

\* ---------------------------------------------------------------- machine
Init ==
    /\ clock = 0
    /\ nextUuid = 0
    /\ history = <<>>
    /\ last = [op |-> "none"]
    /\ WorkersInit
    /\ WsInit
    /\ NodesInit

\* time passes between calls
Tick ==
    /\ clock < MaxClock
    /\ clock' = clock + 1
    /\ UNCHANGED <<nextUuid, history, last>>
    /\ UNCHANGED elsewhere

\* set_config writing a Configure record into the history
SetConfigRecordsHistory ==
    \E request \in ConfigSetRequest :
        /\ last' = [op |-> "set_config", request |-> request,
                    result |-> set_config(request)]
        /\ history' = Append(history, [change_type |-> "Configure",
                                        description |-> request.path])
        /\ UNCHANGED <<clock, nextUuid>>
        /\ UNCHANGED elsewhere

SetConfig ==
    \E request \in ConfigSetRequest :
        /\ last' = [op |-> "set_config", request |-> request,
                    result |-> set_config(request)]
        /\ UNCHANGED <<clock, nextUuid, history>>
        /\ UNCHANGED elsewhere

DeleteConfig ==
    \E request \in [path : Paths, validate : BOOLEAN] :
        /\ last' = [op |-> "delete_config", request |-> request,
                    result |-> delete_config(request)]
        /\ UNCHANGED <<clock, nextUuid, history>>
        /\ UNCHANGED elsewhere

\* fatal: whether the configuration being committed has an error that the
\* device's validation would report as fatal (the call to the device is the
\* TODO of validate_configuration).
\* timed_out: whether the device's save call, which save=true asks for, runs
\* into its timeout (the call to the device is the TODO of generate_config)
GenerateConfig ==
    \E request \in [comment : Comments, save : BOOLEAN, validate : BOOLEAN],
       fatal \in BOOLEAN, timed_out \in BOOLEAN :
        /\ timed_out => request.save
        /\ nextUuid + 2 <= MaxUuid
        /\ LET out == generate_config(request, "system", history, nextUuid, clock)
           IN  /\ last' = [op |-> "generate_config", request |-> request,
                           fatal |-> fatal, timed_out |-> timed_out,
                           result |-> out.result,
                           snapshot |-> out.snapshot]
               /\ history' = out.history
               /\ nextUuid' = nextUuid + out.uuids
        /\ UNCHANGED clock
        /\ UNCHANGED elsewhere

RollbackConfig ==
    \E request \in [history_id : HistoryIds, comment : Comments, apply_immediately : BOOLEAN],
       elapsed \in 0..1 :
        /\ nextUuid + 5 <= MaxUuid
        /\ clock + elapsed <= MaxClock
        /\ LET out == rollback_config(request, "system", history, nextUuid,
                                      clock, clock + elapsed)
           IN  /\ last' = [op |-> "rollback_config", request |-> request,
                           result |-> out.result, snapshot |-> out.snapshot]
               /\ history' = out.history
               /\ nextUuid' = nextUuid + out.uuids
        /\ clock' = clock + elapsed
        /\ UNCHANGED elsewhere

BulkConfigChange ==
    \E changes \in BulkChangeLists,
       validate \in BOOLEAN, stop_on_error \in BOOLEAN :
        LET request == [changes |-> changes, comment |-> "c",
                        validate |-> validate, stop_on_error |-> stop_on_error]
        IN  /\ last' = [op |-> "bulk_config_change", request |-> request,
                        result |-> bulk_config_change(request, "system"),
                        outcomes |-> bulk_loop(request, 1, <<>>, <<>>, <<>>).outcomes]
            /\ UNCHANGED <<clock, nextUuid, history>>
            /\ UNCHANGED elsewhere

GetHistory ==
    \E limit \in Limits :
        /\ last' = [op |-> "get_history", limit |-> limit,
                    result |-> get_history(limit)]
        /\ UNCHANGED <<clock, nextUuid, history>>
        /\ UNCHANGED elsewhere

DiffConfigs ==
    \E snapshot_id1 \in SnapshotIds, snapshot_id2 \in SnapshotIds, elapsed \in 0..1 :
        /\ nextUuid + 5 <= MaxUuid
        /\ clock + elapsed <= MaxClock
        /\ last' = [op |-> "diff_configs",
                    request |-> <<snapshot_id1, snapshot_id2>>,
                    result |-> diff_configs(snapshot_id1, snapshot_id2, nextUuid,
                                            clock, clock + elapsed)]
        /\ nextUuid' = nextUuid + 5
        /\ clock' = clock + elapsed
        /\ UNCHANGED history
        /\ UNCHANGED elsewhere

\* what a get_config_value call keeps of the call before it
Before(call) ==
    IF call.op \in {"set_config", "delete_config"}
    THEN [op |-> call.op, request |-> call.request, ok |-> call.result.ok]
    ELSE [op |-> "other"]

GetConfigValue ==
    \E path \in ValuePaths :
        /\ nextUuid + 1 <= MaxUuid
        /\ last' = [op |-> "get_config_value", request |-> [path |-> path],
                    after |-> Before(last),
                    result |-> get_config_value([path |-> path], nextUuid, clock)]
        /\ nextUuid' = nextUuid + 1
        /\ UNCHANGED <<clock, history>>
        /\ UNCHANGED elsewhere

Next ==
    \/ Tick
    \/ SetConfig
    \/ DeleteConfig
    \/ GenerateConfig
    \/ RollbackConfig
    \/ BulkConfigChange
    \/ GetHistory
    \/ DiffConfigs
    \/ GetConfigValue

Spec == Init /\ [][Next]_vars

\* ------------------------------------------- calculate_diff on its own
\* calculate_diff is a function of the two trees it is given.  The service
\* only ever hands it the mock root, so it is also applied to the trees a
\* configuration can hold: a root with a node /x (a Leaf with value "1" or
\* "2", or a Container) and a Leaf /y, each present or absent.
ConfigNode(path, name, value, node_type, children) ==
    [id |-> 0, path |-> path, name |-> name, value |-> value,
     node_type |-> node_type, children |-> children,
     created_at |-> 0, updated_at |-> 0]

XNodes ==
    {ConfigNode("/x", "x", "1", "Leaf", <<>>),
     ConfigNode("/x", "x", "2", "Leaf", <<>>),
     ConfigNode("/x", "x", NoneValue, "Container", <<>>)}

YNodes == {ConfigNode("/y", "y", "3", "Leaf", <<>>)}

DiffTrees ==
    {ConfigNode("/", "root", NoneValue, "Container", children) :
        children \in {<<>>} \cup {<<x>> : x \in XNodes} \cup {<<y>> : y \in YNodes}
                     \cup {<<x, y>> : x \in XNodes, y \in YNodes}}

InitDiff ==
    /\ clock = 0
    /\ nextUuid = 0
    /\ history = <<>>
    /\ last \in {[op |-> "diff_input", tree1 |-> t1, tree2 |-> t2] :
                    t1 \in DiffTrees, t2 \in DiffTrees}
    /\ WorkersInit
    /\ WsInit
    /\ NodesInit

CalculateDiff ==
    /\ last.op = "diff_input"
    /\ last' = [op |-> "calculate_diff", tree1 |-> last.tree1, tree2 |-> last.tree2,
                result |-> calculate_diff(last.tree1, last.tree2)]
    /\ UNCHANGED <<clock, nextUuid, history>>
    /\ UNCHANGED elsewhere

NextDiff == CalculateDiff

SpecDiff == InitDiff /\ [][NextDiff]_vars

\* ------------------------------------------- search_in_tree on its own
\* search_in_tree is a function of the tree and the request it is given.  The
\* service only ever hands it the mock root, so it is also applied to trees
\* with children and grandchildren.  Paths, values and search terms are
\* sequences of characters here; an Option<String> is <<>> for None and
\* <<str>> for Some(str).
Lower(ch) == CASE ch = "A" -> "a" [] ch = "B" -> "b" [] OTHER -> ch

\* str::to_lowercase
to_lowercase(str) == [i \in 1..Len(str) |-> Lower(str[i])]

\* str::contains
contains(str, pat) ==
    \E i \in 0..(Len(str) - Len(pat)) : SubSeq(str, i + 1, i + Len(pat)) = pat

\* the match arms of search_in_tree
matches(node, search_type, term_lower) ==
    LET in_path == contains(to_lowercase(node.path), term_lower)
        in_value == IF node.value = <<>> THEN FALSE
                    ELSE contains(to_lowercase(node.value[1]), term_lower)
    IN  CASE search_type = "Path" -> in_path
          [] search_type = "Value" -> in_value
          [] OTHER -> in_path \/ in_value

\* a loop that never looks below the children it started with
RECURSIVE search_loop_no_extend(_, _, _, _)
search_loop_no_extend(children_to_search, request, term_lower, results) ==
    IF children_to_search = <<>> THEN results
    ELSE LET n == Len(children_to_search)
             child == children_to_search[n]
             popped == SubSeq(children_to_search, 1, n - 1)
         IN  search_loop_no_extend(popped, request, term_lower,
                 IF matches(child, request.search_type, term_lower)
                 THEN Append(results, child) ELSE results)

\* the while loop of search_in_tree: pop() takes the last element of
\* children_to_search, extend() puts the child's children at its end
RECURSIVE search_loop(_, _, _, _)
search_loop(children_to_search, request, term_lower, results) ==
    IF children_to_search = <<>> THEN results
    ELSE LET n == Len(children_to_search)
             child == children_to_search[n]
             popped == SubSeq(children_to_search, 1, n - 1)
         IN  search_loop(popped \o child.children, request, term_lower,
                 IF matches(child, request.search_type, term_lower)
                 THEN Append(results, child) ELSE results)

search_in_tree(node, request) ==
    LET term_lower == to_lowercase(request.search_term)
        results == IF matches(node, request.search_type, term_lower)
                   THEN <<node>> ELSE <<>>
    IN  search_loop(node.children, request, term_lower, results)

\* what search_config makes of the tree it retrieved
search_response(config_tree, request) ==
    LET results == search_in_tree(config_tree, request)
    IN  Ok([results |-> results, total_count |-> Len(results)])

SearchNode(path, value, children) ==
    ConfigNode(path, path[Len(path)], value,
               IF children = <<>> /\ value # <<>> THEN "Leaf" ELSE "Container",
               children)

\* first child of the root: /a, empty, or holding the leaf /a/b = "A", or a
\* leaf of value "B"
SearchXNodes ==
    {SearchNode(<<"/", "a">>, <<>>, <<>>),
     SearchNode(<<"/", "a">>, <<>>,
                <<SearchNode(<<"/", "a", "/", "b">>, << <<"A">> >>, <<>>)>>),
     SearchNode(<<"/", "a">>, << <<"B">> >>, <<>>)}

\* second child of the root: /B, a leaf of value "a", or holding the
\* leaf /B/a = "b"
SearchYNodes ==
    {SearchNode(<<"/", "B">>, << <<"a">> >>, <<>>),
     SearchNode(<<"/", "B">>, <<>>,
                <<SearchNode(<<"/", "B", "/", "a">>, << <<"b">> >>, <<>>)>>)}

SearchTrees ==
    {SearchNode(<<"/">>, <<>>, children) :
        children \in {<<>>} \cup {<<x>> : x \in SearchXNodes}
                     \cup {<<y>> : y \in SearchYNodes}
                     \cup {<<x, y>> : x \in SearchXNodes, y \in SearchYNodes}}

ConfigSearchRequest ==
    [search_term : {<<"a">>, <<"A">>, <<"B">>},
     search_type : {"Path", "Value", "Both"},
     path_filter : {NoneValue}]

InitSearch ==
    /\ clock = 0
    /\ nextUuid = 0
    /\ history = <<>>
    /\ last \in {[op |-> "search_input", tree |-> t, request |-> r] :
                    t \in SearchTrees, r \in ConfigSearchRequest}
    /\ WorkersInit
    /\ WsInit
    /\ NodesInit

SearchInTree ==
    /\ last.op = "search_input"
    /\ last' = [op |-> "search_in_tree", tree |-> last.tree,
                request |-> last.request,
                result |-> search_response(last.tree, last.request)]
    /\ UNCHANGED <<clock, nextUuid, history>>
    /\ UNCHANGED elsewhere

NextSearch == SearchInTree

SpecSearch == InitSearch /\ [][NextSearch]_vars

\* ------------------------------------------------------ websocket_handler
Channels == {"ch"}

\* what a Text frame parses to with serde_json::from_str::<WsMessage>
WsMessages ==
    {[type |-> "Ping"], [type |-> "Auth"]}
      \cup {[type |-> t, channel |-> c] : t \in {"Subscribe", "Unsubscribe"}, c \in Channels}

\* the frames of the message stream that keep the loop going: a Text frame
\* that parses to ws_msg or does not parse (parsed tells which; ws_msg is
\* read only when it does), a Ping frame, any other frame
Frames ==
    {[kind |-> "Text", parsed |-> TRUE, ws_msg |-> m] : m \in WsMessages}
      \cup {[kind |-> "Text", parsed |-> FALSE, ws_msg |-> [type |-> "Ping"]],
            [kind |-> "Ping", parsed |-> FALSE, ws_msg |-> [type |-> "Ping"]],
            [kind |-> "Binary", parsed |-> FALSE, ws_msg |-> [type |-> "Ping"]]}

\* Handler<WsMessage> for WebSocketConnection, on the connection's record
handle(conn, msg) ==
    CASE msg.type = "Auth" -> [conn EXCEPT !.user_id = "user_id_from_token"]
      [] msg.type = "Subscribe" ->
            IF \E k \in 1..Len(conn.channels) : conn.channels[k] = msg.channel
            THEN conn
            ELSE [conn EXCEPT !.channels = Append(@, msg.channel)]
      [] msg.type = "Unsubscribe" ->
            [conn EXCEPT !.channels = SelectSeq(@, LAMBDA c : c # msg.channel)]
      [] OTHER -> conn

add_connection(conns, id) == conns \cup {id}

remove_connection(conns, id) == conns \ {id}

\* websocket_handler up to its loop: draws the connection id, registers it
WsConnect ==
    \E h \in HandlerIds :
        /\ handlers[h].pc = "none"
        /\ nextUuid + 1 <= MaxUuid
        /\ connections' = add_connection(connections, nextUuid)
        /\ handlers' = [handlers EXCEPT ![h].pc = "loop", ![h].id = <<nextUuid>>]
        /\ nextUuid' = nextUuid + 1
        /\ UNCHANGED <<clock, history, last, workers, status, calls>>

\* one turn of the loop on a frame other than Close
WsReceive ==
    \E h \in HandlerIds, frame \in Frames :
        /\ handlers[h].pc = "loop"
        /\ handlers' = [handlers EXCEPT ![h] =
                            IF frame.kind = "Text" /\ frame.parsed
                            THEN handle(@, frame.ws_msg) ELSE @]
        /\ UNCHANGED <<clock, nextUuid, history, last, workers, connections, status, calls>>

\* the turn of the loop on a Close frame
WsClose ==
    \E h \in HandlerIds :
        /\ handlers[h].pc = "loop"
        /\ connections' = remove_connection(connections, handlers[h].id[1])
        /\ handlers' = [handlers EXCEPT ![h].pc = "returned",
                                        ![h].response = "WebSocket connection closed"]
        /\ UNCHANGED <<clock, nextUuid, history, last, workers, status, calls>>

\* payload.next() yields None (the stream ended) or Some(Err(_)): the
\* while let stops and the function returns
WsStreamEnds ==
    \E h \in HandlerIds, how \in {"None", "Err"} :
        /\ handlers[h].pc = "loop"
        /\ handlers' = [handlers EXCEPT ![h].pc = "returned",
                                        ![h].response = "WebSocket connection ended"]
        /\ UNCHANGED <<clock, nextUuid, history, last, workers, connections, status, calls>>

NextWs ==
    \/ WsConnect
    \/ WsReceive
    \/ WsClose
    \/ WsStreamEnds

SpecWs == Init /\ [][NextWs]_vars

\* --------------------------------------------- NodeService::test_connection
\* A sqlx query fails or not (db_ok), building the HTTP client fails or not
\* (client_ok), and the device answers or not (success): each is the
\* environment's choice.
Returned(call, result) == [call EXCEPT !.pc = "returned", !.result = <<result>>]

\* UPDATE nodes SET status = ? WHERE id = ?
update_node_status(rows, node_id, new_status) ==
    IF node_id \in DOMAIN rows THEN [rows EXCEPT ![node_id] = new_status] ELSE rows

\* get_node and the NotFound test
TestGetNode ==
    \E c \in CallerIds, node_id \in NodeIds, db_ok \in BOOLEAN :
        /\ calls[c].pc = "none"
        /\ LET call == [calls[c] EXCEPT
                           !.node_id = node_id,
                           !.before = IF node_id \in DOMAIN status
                                      THEN status[node_id] ELSE NoneValue]
           IN  calls' = [calls EXCEPT ![c] =
                   IF ~db_ok THEN Returned(call, Err([kind |-> "Database", msg |-> "sqlx"]))
                   ELSE IF node_id \notin DOMAIN status
                   THEN Returned(call, Err([kind |-> "NotFound", msg |-> node_id]))
                   ELSE [call EXCEPT !.pc = "got_node"]]
        /\ UNCHANGED <<clock, nextUuid, history, last, workers, connections, handlers, status>>

\* update_node_status(node_id, NodeStatus::Testing)
TestMarkTesting ==
    \E c \in CallerIds, db_ok \in BOOLEAN :
        /\ calls[c].pc = "got_node"
        /\ IF db_ok
           THEN /\ status' = update_node_status(status, calls[c].node_id, "testing")
                /\ calls' = [calls EXCEPT ![c].pc = "marked"]
           ELSE /\ status' = status
                /\ calls' = [calls EXCEPT ![c] =
                                Returned(@, Err([kind |-> "Database", msg |-> "sqlx"]))]
        /\ UNCHANGED <<clock, nextUuid, history, last, workers, connections, handlers>>

\* create_vyos_client, then vyos_client.test_connection(), which reports a
\* device that does not answer as Ok with success = false
TestProbe ==
    \E c \in CallerIds, client_ok \in BOOLEAN, success \in BOOLEAN :
        /\ calls[c].pc = "marked"
        /\ calls' = [calls EXCEPT ![c] =
                        IF client_ok
                        THEN [@ EXCEPT !.pc = "probed", !.success = success]
                        ELSE Returned(@, Err([kind |-> "HttpClient",
                                              msg |-> "Failed to create HTTP client"]))]
        /\ UNCHANGED <<clock, nextUuid, history, last, workers, connections, handlers, status>>

\* update_node_status(node_id, new_status); a failed test returns here
TestRecordStatus ==
    \E c \in CallerIds, db_ok \in BOOLEAN :
        /\ calls[c].pc = "probed"
        /\ IF db_ok
           THEN /\ status' = update_node_status(status, calls[c].node_id,
                                 IF calls[c].success THEN "online" ELSE "error")
                /\ calls' = [calls EXCEPT ![c] =
                                IF @.success THEN [@ EXCEPT !.pc = "recorded"]
                                ELSE Returned(@, Ok([success |-> FALSE]))]
           ELSE /\ status' = status
                /\ calls' = [calls EXCEPT ![c] =
                                Returned(@, Err([kind |-> "Database", msg |-> "sqlx"]))]
        /\ UNCHANGED <<clock, nextUuid, history, last, workers, connections, handlers>>

\* update_node_metadata after a successful test, then the return
TestUpdateMetadata ==
    \E c \in CallerIds, db_ok \in BOOLEAN :
        /\ calls[c].pc = "recorded"
        /\ calls' = [calls EXCEPT ![c] =
                        IF db_ok THEN Returned(@, Ok([success |-> TRUE]))
                        ELSE Returned(@, Err([kind |-> "Database", msg |-> "sqlx"]))]
        /\ UNCHANGED <<clock, nextUuid, history, last, workers, connections, handlers, status>>

NextNode ==
    \/ TestGetNode
    \/ TestMarkTesting
    \/ TestProbe
    \/ TestRecordStatus
    \/ TestUpdateMetadata

SpecNode == Init /\ [][NextNode]_vars

\* ------------------------------------------------- the HTTP worker threads
\* The mutating methods of ConfigService and the numbers of awaits a call of
\* each can have before it: validate_config_path or validate_config_deletion
\* when validate is set; validate_configuration when validate is set, then
\* create_config_snapshot and store_config_history; get_history_entry,
\* create_config_snapshot and store_config_history; one set_config per change.
Awaits ==
    [set_config |-> {0, 1},
     delete_config |-> {0, 1},
     generate_config |-> {2, 3},
     rollback_config |-> {3},
     bulk_config_change |-> 0..MaxChanges]

\* a worker takes a request and calls the method; nothing is acquired first
Accept ==
    \E w \in WorkerIds, op \in DOMAIN Awaits :
        \E left \in Awaits[op] :
            /\ workers[w].op = "idle"
            /\ workers' = [workers EXCEPT ![w] = [op |-> op, left |-> left]]
            /\ UNCHANGED <<clock, nextUuid, history, last, connections, handlers, status, calls>>

\* the call runs to its next await
Poll ==
    \E w \in WorkerIds :
        /\ workers[w].op # "idle"
        /\ workers[w].left > 0
        /\ workers' = [workers EXCEPT ![w].left = @ - 1]
        /\ UNCHANGED <<clock, nextUuid, history, last, connections, handlers, status, calls>>

\* the call returns and the worker sends the response
Respond ==
    \E w \in WorkerIds :
        /\ workers[w].op # "idle"
        /\ workers[w].left = 0
        /\ workers' = [workers EXCEPT ![w] = [op |-> "idle", left |-> 0]]
        /\ UNCHANGED <<clock, nextUuid, history, last, connections, handlers, status, calls>>

NextWorkers ==
    \/ Accept
    \/ Poll
    \/ Respond

SpecWorkers == Init /\ [][NextWorkers]_vars

\* ------------------------------------------------------------ properties
IsBulk == last.op = "bulk_config_change"

\* change i of a bulk request is one set_config is meant to refuse: the
\* request asks for validation and the value breaks the node's rule
ShouldFail(request, i) ==
    /\ request.validate
    /\ ~MeetsConstraints(request.changes[i].path, request.changes[i].value)

Min(S) == CHOOSE x \in S : \A y \in S : x <= y

Range(seq) == {seq[k] : k \in 1..Len(seq)}

\* the paths of the changes the loop reached with outcome ok, in the order
\* the loop reached them
RECURSIVE PathsWith(_, _, _, _)
PathsWith(changes, outcomes, ok, k) ==
    IF k > Len(outcomes) THEN <<>>
    ELSE IF outcomes[k].ok = ok
         THEN <<changes[outcomes[k].i].path>> \o PathsWith(changes, outcomes, ok, k + 1)
         ELSE PathsWith(changes, outcomes, ok, k + 1)

FailedPaths(failed) == [k \in 1..Len(failed) |-> failed[k].path]

\* C1: with stop_on_error a bulk call stops at the first failing change
\* (applied holds the changes before it, failed holds it alone, nothing after
\* it is attempted); without stop_on_error every change is attempted.
C1_StopOnErrorHalts ==
    IsBulk =>
        LET request == last.request
            n == Len(request.changes)
            failing == {i \in 1..n : ShouldFail(request, i)}
        IN  /\ last.result.ok
            /\ (request.stop_on_error /\ failing # {}) =>
                   LET f == Min(failing)
                   IN  /\ Len(last.outcomes) = f
                       /\ last.result.val.applied = [i \in 1..(f - 1) |-> request.changes[i].path]
                       /\ FailedPaths(last.result.val.failed) = <<request.changes[f].path>>
            /\ ~request.stop_on_error => Len(last.outcomes) = n

\* C2: a bulk call attempts the changes one by one in request order, and each
\* attempted change appears exactly once: its path in applied if it succeeded,
\* a {path, error} record in failed if it failed, both in request order.
C2_RecordedOnceInOrder ==
    (IsBulk /\ last.result.ok) =>
        LET changes == last.request.changes
            outcomes == last.outcomes
        IN  /\ Len(outcomes) <= Len(changes)
            /\ \A k \in 1..Len(outcomes) : outcomes[k].i = k
            /\ last.result.val.applied = PathsWith(changes, outcomes, TRUE, 1)
            /\ FailedPaths(last.result.val.failed) = PathsWith(changes, outcomes, FALSE, 1)

C2_Witness ==
    /\ IsBulk
    /\ last.result.ok
    /\ Len(last.request.changes) >= 2
    /\ last.request.changes[1].path # last.request.changes[2].path
    /\ last.result.val.applied = <<last.request.changes[1].path, last.request.changes[2].path>>

\* C3: the success flag of a bulk response is true exactly when its failed
\* list is empty.
C3_SuccessIffNoFailures ==
    (IsBulk /\ last.result.ok) =>
        (last.result.val.success <=> last.result.val.failed = <<>>)

C3_Witness ==
    /\ IsBulk
    /\ last.result.ok
    /\ Len(last.result.val.applied) >= 1
    /\ last.result.val.success
    /\ last.result.val.failed = <<>>

\* C4: a bulk call always returns Ok with the (applied, failed) manifest,
\* never Err, whatever mix of valid and invalid changes it is given.
C4_BulkNeverErr ==
    IsBulk => last.result.ok

C4_Witness ==
    /\ IsBulk
    /\ \E i, j \in 1..Len(last.request.changes) :
         /\ ShouldFail(last.request, i)
         /\ ~ShouldFail(last.request, j)
    /\ last.result.ok
    /\ Len(last.result.val.applied) + Len(last.result.val.failed) = Len(last.outcomes)

\* C5: a set_config or delete_config call leaves the history exactly as it
\* was.
C5_SetDeleteKeepHistory ==
    [][(/\ last'.op \in {"set_config", "delete_config"}
        /\ (SetConfig \/ DeleteConfig)) => history' = history]_vars

C5_Witness ==
    /\ last.op \in {"set_config", "delete_config"}
    /\ last.result.ok
    /\ last.result.val.success
    /\ nextUuid > 0
    /\ history = <<>>

\* C6: a successful generate_config appends exactly one history entry, of
\* change_type Generate and commit_status Success, that references the
\* snapshot the call took.
C6_GenerateAppendsEntry ==
    [][(GenerateConfig /\ last'.result.ok) =>
          /\ Len(history') = Len(history) + 1
          /\ SubSeq(history', 1, Len(history)) = history
          /\ history'[Len(history')].change_type = "Generate"
          /\ history'[Len(history')].commit_status = "Success"
          /\ history'[Len(history')].config_snapshot = last'.snapshot]_vars

\* C7: generate_config with validate=true on a configuration with a fatal
\* validation error fails and takes no snapshot; otherwise the warnings of
\* the validation come back with the result.
C7_FatalValidationAborts ==
    last.op = "generate_config" =>
        /\ (last.request.validate /\ last.fatal) =>
               (~last.result.ok /\ last.snapshot = NoneValue)
        /\ last.result.ok =>
               last.result.val.warnings =
                   IF last.request.validate THEN validate_configuration.val ELSE <<>>

\* C8: a rollback_config with apply_immediately=false appends nothing to the
\* history, and the generate_config that follows it records the rolled-back
\* configuration in the history.
C8_DeferredRollback ==
    [][/\ (RollbackConfig /\ ~last'.request.apply_immediately) =>
              history' = history
       /\ (/\ GenerateConfig
           /\ last.op = "rollback_config"
           /\ last.result.ok
           /\ ~last.request.apply_immediately
           /\ last'.result.ok) =>
              /\ Len(history') = Len(history) + 1
              /\ history'[Len(history')].config_snapshot.hash = last.result.val.rolled_back_to.hash]_vars

\* C9: a durable rollback_config appends one new history entry of
\* change_type Rollback that references the snapshot of the target entry,
\* and leaves every earlier entry in place.
C9_RollbackAppendsForward ==
    [][(RollbackConfig /\ last'.request.apply_immediately /\ last'.result.ok) =>
          /\ Len(history') = Len(history) + 1
          /\ SubSeq(history', 1, Len(history)) = history
          /\ history'[Len(history')].change_type = "Rollback"
          /\ history'[Len(history')].config_snapshot = last'.result.val.rolled_back_to]_vars

\* C10: the snapshot a generate_config takes right after rollback_config(h)
\* has the hash of the snapshot that history entry h references.
C10_RollbackCommitRoundTrip ==
    [][(/\ GenerateConfig
        /\ last.op = "rollback_config"
        /\ last.result.ok
        /\ last'.result.ok) =>
          last'.snapshot.hash = last.result.val.rolled_back_to.hash]_vars

\* the nodes of a tree
RECURSIVE NodesOf(_)
NodesOf(node) ==
    {node} \cup UNION {NodesOf(node.children[k]) : k \in 1..Len(node.children)}

\* what makes two trees structurally identical: their (path, type, value)
\* tuples
Canonical(tree) == {<<n.path, n.node_type, n.value>> : n \in NodesOf(tree)}

\* C11: two snapshots have the same hash exactly when their trees are
\* structurally identical (so hashing the same tree twice gives one value).
C11_HashIffIdentical ==
    (last.op = "rollback_config" /\ last.result.ok) =>
        LET a == last.result.val.rolled_back_to
            b == last.snapshot
        IN  (a.hash = b.hash) <=> (Canonical(a.config_tree) = Canonical(b.config_tree))

\* C12: a commit of a tree whose hash a snapshot already has yields that
\* existing snapshot, never a second snapshot with the same hash.
C12_CommitDeduplicates ==
    [][(/\ last'.op = "generate_config"
        /\ last.op \in {"generate_config", "rollback_config"}
        /\ GenerateConfig
        /\ last.result.ok
        /\ last'.result.ok
        /\ last'.snapshot.hash = last.snapshot.hash) =>
          last'.snapshot.id = last.snapshot.id]_vars

IsDiff == last.op = "calculate_diff" /\ last.result.ok

\* C13: the diff of a tree with itself has no additions, no deletions and no
\* modifications.
C13_SelfDiffEmpty ==
    (IsDiff /\ last.tree1 = last.tree2) =>
        /\ last.result.val.additions = <<>>
        /\ last.result.val.deletions = <<>>
        /\ last.result.val.modifications = <<>>

C13_Witness ==
    /\ IsDiff
    /\ last.tree1 = last.tree2
    /\ Len(last.tree1.children) = 2
    /\ last.result.val.additions = <<>>

\* C14: the additions of diff(A, B) are the deletions of diff(B, A), and the
\* deletions of diff(A, B) are the additions of diff(B, A).
C14_DiffSymmetry ==
    IsDiff =>
        LET back == calculate_diff(last.tree2, last.tree1)
        IN  /\ back.ok
            /\ {c.path : c \in Range(last.result.val.additions)}
                 = {c.path : c \in Range(back.val.deletions)}
            /\ {c.path : c \in Range(last.result.val.deletions)}
                 = {c.path : c \in Range(back.val.additions)}

C14_Witness ==
    /\ IsDiff
    /\ \E n \in NodesOf(last.tree2) : \A m \in NodesOf(last.tree1) : m.path # n.path
    /\ last.result.val.deletions = <<>>

PathsOf(tree) == {n.path : n \in NodesOf(tree)}
NodeAt(tree, path) == CHOOSE n \in NodesOf(tree) : n.path = path

\* C15: diff(A, B) lists a path only in B as added, a path only in A as
\* deleted, a path in both with the same type and another value as modified
\* (old and new value), a path in both with another type as deleted and
\* added, and nothing else.
C15_DiffClassifies ==
    IsDiff =>
        LET A == last.tree1
            B == last.tree2
            both == PathsOf(A) \cap PathsOf(B)
            retyped == {p \in both : NodeAt(A, p).node_type # NodeAt(B, p).node_type}
            revalued == {p \in both \ retyped : NodeAt(A, p).value # NodeAt(B, p).value}
            r == last.result.val
        IN  /\ {c.path : c \in Range(r.additions)} = (PathsOf(B) \ PathsOf(A)) \cup retyped
            /\ {c.path : c \in Range(r.deletions)} = (PathsOf(A) \ PathsOf(B)) \cup retyped
            /\ {<<c.path, c.old_value, c.new_value>> : c \in Range(r.modifications)}
                 = {<<p, NodeAt(A, p).value, NodeAt(B, p).value>> : p \in revalued}
            /\ Len(r.additions) = Cardinality({c.path : c \in Range(r.additions)})
            /\ Len(r.deletions) = Cardinality({c.path : c \in Range(r.deletions)})
            /\ Len(r.modifications) = Cardinality(revalued)

\* C16: the listing that follows a successful generate_config holds the
\* entry of that commit, and holds no id twice.
C16_ListingHoldsAppended ==
    [][(/\ last'.op = "get_history"
        /\ last.op = "generate_config"
        /\ GetHistory
        /\ last.result.ok) =>
          LET listing == last'.result.val.history
          IN  /\ \E k \in 1..Len(listing) :
                    listing[k].config_snapshot.id = last.result.val.config_snapshot_id
              /\ \A i, j \in 1..Len(listing) : i # j => listing[i].id # listing[j].id
              /\ last'.result.val.total_count = Len(listing)]_vars

\* C17: every append gives the new entry an id above the id of every entry
\* appended before it.
C17_AppendIdsIncrease ==
    [][(/\ last'.op \in {"generate_config", "rollback_config"}
        /\ (GenerateConfig \/ RollbackConfig)
        /\ last'.result.ok) =>
          /\ Len(history') = Len(history) + 1
          /\ \A k \in 1..Len(history) : history'[Len(history')].id > history[k].id]_vars

IsGetAfter(op) ==
    /\ last.op = "get_config_value"
    /\ last.after.op = op
    /\ last.after.ok

\* C19: a get of the path a successful set_config just wrote returns the
\* value that was set.
C19_SetThenGet ==
    (IsGetAfter("set_config") /\ last.after.request.path = last.request.path) =>
        /\ last.result.ok
        /\ last.result.val.found
        /\ last.result.val.value = last.after.request.value

\* path p lies in the subtree rooted at path q
InSubtree(p, q) == p = q \/ <<p, q>> \in {<<"/a/c", "/a">>}

Absent(path) == path \notin PathsOf(build_mock_config_tree(NoneValue, 0, 0).val)

\* C21: delete_config of an absent path succeeds as a no-op with
\* validate=false and returns a NotFound error with validate=true.
C21_DeleteAbsent ==
    (last.op = "delete_config" /\ Absent(last.request.path)) =>
        IF last.request.validate
        THEN ~last.result.ok /\ last.result.err.kind = "NotFound"
        ELSE last.result.ok /\ last.result.val.success

\* C22: set_config with validate=true of a value that breaks the node's
\* validation rule returns a Validation error; with validate=false it
\* succeeds whatever the value.
C22_SetValidates ==
    last.op = "set_config" =>
        IF last.request.validate
        THEN ~MeetsConstraints(last.request.path, last.request.value) =>
                 (~last.result.ok /\ last.result.err.kind = "Validation")
        ELSE last.result.ok /\ last.result.val.success

\* C24: a generate_config with save=true whose device call times out does
\* not report a successful commit.
C24_SaveTimeoutFails ==
    (last.op = "generate_config" /\ last.request.save /\ last.timed_out) =>
        (~last.result.ok \/ ~last.result.val.success)

\* C25: a rollback_config to a history id that no entry of the history has
\* returns a NotFound error and leaves the history as it was.
C25_UnknownHistoryId ==
    [][(/\ last'.op = "rollback_config"
        /\ RollbackConfig
        /\ \A k \in 1..Len(history) : history[k].id # last'.request.history_id) =>
          /\ ~last'.result.ok
          /\ last'.result.err.kind = "NotFound"
          /\ history' = history]_vars

\* C28: the new_history_id a successful rollback_config returns is the id of
\* the Rollback entry the call appended, and the config_snapshot_id a
\* successful generate_config returns is the id of the snapshot in the
\* Generate entry the call appended.
C28_ReturnedIdsNameEntry ==
    [][/\ (/\ last'.op = "rollback_config"
           /\ RollbackConfig
           /\ last'.result.ok) =>
              /\ Len(history') = Len(history) + 1
              /\ history'[Len(history')].change_type = "Rollback"
              /\ history'[Len(history')].id = last'.result.val.new_history_id
       /\ (/\ last'.op = "generate_config"
           /\ GenerateConfig
           /\ last'.result.ok) =>
              /\ Len(history') = Len(history) + 1
              /\ history'[Len(history')].change_type = "Generate"
              /\ history'[Len(history')].config_snapshot.id
                    = last'.result.val.config_snapshot_id]_vars

IsSearch == last.op = "search_in_tree" /\ last.result.ok

\* the nodes of a tree in depth-first pre-order: a node, then the subtrees of
\* its children in stored order
RECURSIVE PreOrder(_)
RECURSIVE PreOrderOfAll(_, _)
PreOrder(node) == <<node>> \o PreOrderOfAll(node.children, 1)
PreOrderOfAll(children, k) ==
    IF k > Len(children) THEN <<>>
    ELSE PreOrder(children[k]) \o PreOrderOfAll(children, k + 1)

ContainsIgnoringCase(str, term) == contains(to_lowercase(str), to_lowercase(term))

\* node matches the request: by path, by value, or by either
IsMatch(node, request) ==
    LET by_path == ContainsIgnoringCase(node.path, request.search_term)
        by_value == /\ node.value # <<>>
                    /\ ContainsIgnoringCase(node.value[1], request.search_term)
    IN  \/ request.search_type \in {"Path", "Both"} /\ by_path
        \/ request.search_type \in {"Value", "Both"} /\ by_value

\* C26: the results of a search are the matching nodes in depth-first
\* pre-order, siblings in stored order.
C26_SearchPreOrder ==
    IsSearch =>
        last.result.val.results
          = SelectSeq(PreOrder(last.tree), LAMBDA n : IsMatch(n, last.request))

\* C27: the results of a search are exactly the matching nodes of the tree,
\* each once, and total_count is their number.
C27_SearchExact ==
    IsSearch =>
        LET results == last.result.val.results
        IN  /\ Range(results) = {n \in NodesOf(last.tree) : IsMatch(n, last.request)}
            /\ Len(results) = Cardinality(Range(results))
            /\ last.result.val.total_count = Len(results)

C27_Witness ==
    /\ IsSearch
    /\ last.request.search_term = <<"A">>
    /\ last.request.search_type = "Both"
    /\ \E k \in 1..Len(last.result.val.results) :
          Len(last.result.val.results[k].path) = 4
    /\ last.result.val.total_count >= 3

\* C23: no two workers are inside a mutating operation of the configuration
\* at the same time.
C23_MutualExclusion ==
    \A w1, w2 \in WorkerIds :
        (w1 # w2 /\ workers[w1].op # "idle") => workers[w2].op = "idle"

\* C29: a websocket_handler call that has returned has no connection id
\* left in the ConnectionManager.
C29_ReturnedUnregistered ==
    \A h \in HandlerIds :
        handlers[h].pc = "returned" => handlers[h].id[1] \notin connections

\* no other test_connection call on the node of call c is between its two
\* status updates
AloneOnNode(c) ==
    \A d \in CallerIds \ {c} :
        ~(calls[d].node_id = calls[c].node_id /\ calls[d].pc \in {"marked", "probed"})

\* C30: when a test_connection call returns, the status of its node is
\* online, error, or what it was before the call.
C30_NeverLeftTesting ==
    [][\A c \in CallerIds :
          (/\ calls[c].pc # "returned"
           /\ calls'[c].pc = "returned"
           /\ calls'[c].node_id \in DOMAIN status
           /\ AloneOnNode(c)') =>
             status'[calls'[c].node_id] \in {"online", "error", calls'[c].before}]_vars
====
